---- MODULE Spec2Model ----
(***************************************************************************)
(* Model of src/app.py: count_ocean_waves_web, the per-frame wave counting *)
(* pipeline (blob filter, counting sub-zone test and the two-state         *)
(* WAITING/COUNTING event detector with cooldown and debounce).            *)
(*                                                                         *)
(* Time.  time.time() returns float seconds since 1970.  The model counts  *)
(* wall-clock time in integer ticks, TicksPerSecond ticks to the second,   *)
(* so that "less than", "exactly" and "more than" one cooldown are all     *)
(* representable.  Every reading lies in ClockValues, whose smallest value *)
(* is already more than one cooldown after the epoch (as any real reading  *)
(* is).  The clock does not run backwards, and between two frames it may   *)
(* stand still (a fast decoder) or advance by any amount (a slow one).     *)
(***************************************************************************)
EXTENDS Integers, Sequences, FiniteSets, TLC

(***************************************************************************)
(* Program constants.                                                      *)
(***************************************************************************)
ROI_TOP_PCT == 55            \* 0.55, in percent
ROI_BOTTOM_PCT == 75         \* 0.75
COUNT_ZONE_TOP_PCT == 65     \* 0.65
COUNT_ZONE_BOTTOM_PCT == 70  \* 0.70
MinContourArea == 1000       \* if area < 1000: continue
MinContourWidth == 50        \* if w < 50: continue
cooldown_seconds == 1        \* cooldown = 1.0
debounce_frames == 10        \* debounce_frames = 10
OpenFailedResult == -1       \* return -1

(***************************************************************************)
(* Bounds of the model.                                                    *)
(***************************************************************************)
TicksPerSecond == 2          \* clock resolution of the model
ClockSpan == 3               \* width of the window of clock readings, in ticks
MaxFrames == 13              \* longest video, in frames
MaxRuns == 3                 \* signal runs recorded by the history variable
MaxContours == 2             \* contours of one frame, where they are enumerated
MaxSignalFrames == 2         \* frames, where the contours are enumerated

cooldown == cooldown_seconds * TicksPerSecond
EpochStart == cooldown + 1
ClockValues == EpochStart .. (EpochStart + ClockSpan)

\* Frame heights reported by CAP_PROP_FRAME_HEIGHT.  For these heights the
\* float products h * 0.55, h * 0.75, h * 0.65, h * 0.70 truncate to the same
\* integers as the exact rational products (not so for e.g. 360 or 720), and
\* the ROI strip is high enough to hold a contour of the minimum area and
\* width.
FrameHeights == {240, 480}

(***************************************************************************)
(* Zone geometry, lines 52-55: int(frame_height * PCT).                    *)
(***************************************************************************)
ROI_TOP(h) == (h * ROI_TOP_PCT) \div 100
ROI_BOTTOM(h) == (h * ROI_BOTTOM_PCT) \div 100
COUNT_ZONE_TOP(h) == (h * COUNT_ZONE_TOP_PCT) \div 100
COUNT_ZONE_BOTTOM(h) == (h * COUNT_ZONE_BOTTOM_PCT) \div 100

(***************************************************************************)
(* A contour is abstracted to what the loop reads of it: contourArea and   *)
(* boundingRect (y and h relative to the ROI strip).                       *)
(***************************************************************************)
Contour(a, bw, by, bh) == [area |-> a, w |-> bw, y |-> by, h |-> bh]

\* What findContours can return for a strip of the frame: the bounding box
\* lies in the strip and the area fits in the bounding box.
PossibleContour(fh, c) ==
  /\ c.y >= 0
  /\ c.h >= 1
  /\ c.w >= 1
  /\ c.y + c.h <= ROI_BOTTOM(fh) - ROI_TOP(fh)
  /\ c.area <= (c.w - 1) * (c.h - 1)

\* A contour of area a and width bw, 22 rows high, whose vertical center, in
\* full-frame coordinates, is at row c of a frame of height fh.
ContourAt(fh, a, bw, c) == Contour(a, bw, c - ROI_TOP(fh) - 11, 22)

\* The frames the model feeds: lists of contours as findContours returns them.
SampleFrames(fh) ==
  LET zt == COUNT_ZONE_TOP(fh)
      zb == COUNT_ZONE_BOTTOM(fh)
      inTop == ContourAt(fh, MinContourArea, MinContourWidth, zt)
      inBot == ContourAt(fh, MinContourArea + 500, MinContourWidth + 30, zb)
      above == ContourAt(fh, MinContourArea + 500, MinContourWidth + 30, zt - 1)
      below == ContourAt(fh, MinContourArea + 500, MinContourWidth + 30, zb + 1)
      small == ContourAt(fh, MinContourArea - 1, MinContourWidth, zt)
      narrow == ContourAt(fh, MinContourArea, MinContourWidth - 1, zt)
  IN  { <<>>, <<inTop>>, <<inBot, below>>, <<above, small>>, <<narrow>> }

\* Contours around the thresholds and the zone bounds: of exactly the minimum
\* area and width at the top row of the zone; one below the minimum area; one
\* below the minimum width; of odd height at the bottom row; one row above the
\* zone; one row below it.
BlobContours(fh) ==
  LET rt == ROI_TOP(fh)
      zt == COUNT_ZONE_TOP(fh)
      zb == COUNT_ZONE_BOTTOM(fh)
  IN  { Contour(MinContourArea, MinContourWidth, zt - rt - 11, 22),
        Contour(MinContourArea - 1, MinContourWidth + 30, zt - rt - 11, 22),
        Contour(MinContourArea, MinContourWidth - 1, zb - rt - 11, 22),
        Contour(MinContourArea + 500, MinContourWidth + 30, zb - rt - 11, 23),
        Contour(MinContourArea + 500, MinContourWidth + 30, zt - rt - 12, 22),
        Contour(MinContourArea + 500, MinContourWidth + 30, zb - rt - 10, 22) }

\* Every list of at most MaxContours of them.
BlobFrames(fh) ==
  UNION {[1 .. n -> BlobContours(fh)] : n \in 0 .. MaxContours}

\* Variants of ContourStep with one slip each.
\* The thresholds are exclusive: <= instead of <.
ContourStepExclusive(fh, detected, cnt) ==
  IF cnt.area <= MinContourArea THEN detected
  ELSE IF cnt.w <= MinContourWidth THEN detected
  ELSE LET full_cy == ROI_TOP(fh) + cnt.y + (cnt.h \div 2)
       IN  IF COUNT_ZONE_TOP(fh) <= full_cy /\ full_cy <= COUNT_ZONE_BOTTOM(fh)
           THEN TRUE
           ELSE detected

\* The flag is assigned the zone test of each accepted contour, so the last one
\* decides.
ContourStepLastWins(fh, detected, cnt) ==
  IF cnt.area < MinContourArea THEN detected
  ELSE IF cnt.w < MinContourWidth THEN detected
  ELSE LET full_cy == ROI_TOP(fh) + cnt.y + (cnt.h \div 2)
       IN  COUNT_ZONE_TOP(fh) <= full_cy /\ full_cy <= COUNT_ZONE_BOTTOM(fh)

(***************************************************************************)
(* Lines 82-95: the body of "for cnt in contours", on one contour, given   *)
(* the flag so far.                                                        *)
(***************************************************************************)
ContourStep(fh, detected, cnt) ==
  IF cnt.area < MinContourArea THEN detected
  ELSE IF cnt.w < MinContourWidth THEN detected
  ELSE LET cy == cnt.y + (cnt.h \div 2)
           full_cy == ROI_TOP(fh) + cy
       IN  IF COUNT_ZONE_TOP(fh) <= full_cy /\ full_cy <= COUNT_ZONE_BOTTOM(fh)
           THEN TRUE
           ELSE detected

RECURSIVE ContourLoop(_, _, _)
ContourLoop(fh, detected, contours) ==
  IF contours = <<>> THEN detected
  ELSE ContourLoop(fh, ContourStep(fh, detected, Head(contours)), Tail(contours))

\* Lines 80-95: wave_detected_in_region of one frame.
WaveDetected(fh, contours) == ContourLoop(fh, FALSE, contours)

(***************************************************************************)
(* Lines 98-113: the state machine, on the detector state                  *)
(* d = [wave_state, wave_count, last_wave_time, frames_since_last_detection]*)
(***************************************************************************)
WAITING == 0
COUNTING == 1

InitialDetector ==
  [wave_state |-> WAITING, wave_count |-> 0, last_wave_time |-> 0,
   frames_since_last_detection |-> 0]

\* Variants of WaitingStep with one slip each.
\* frames_since_last_detection is not reset on a count.
WaitingStepNoReset(d, detected, current_time) ==
  IF detected /\ (current_time - d.last_wave_time) > cooldown
  THEN [d EXCEPT !.wave_state = COUNTING, !.wave_count = @ + 1,
                 !.last_wave_time = current_time]
  ELSE d

\* The cooldown test is >= instead of >.
WaitingStepAtCooldown(d, detected, current_time) ==
  IF detected /\ (current_time - d.last_wave_time) >= cooldown
  THEN [wave_state |-> COUNTING, wave_count |-> d.wave_count + 1,
        last_wave_time |-> current_time, frames_since_last_detection |-> 0]
  ELSE d

\* The cooldown test is missing.
WaitingStepNoCooldown(d, detected, current_time) ==
  IF detected
  THEN [wave_state |-> COUNTING, wave_count |-> d.wave_count + 1,
        last_wave_time |-> current_time, frames_since_last_detection |-> 0]
  ELSE d

\* The count is advanced by two.
WaitingStepAddsTwo(d, detected, current_time) ==
  IF detected /\ (current_time - d.last_wave_time) > cooldown
  THEN [wave_state |-> COUNTING, wave_count |-> d.wave_count + 2,
        last_wave_time |-> current_time, frames_since_last_detection |-> 0]
  ELSE d

\* Lines 99-105; current_time is read only when the signal is true.
WaitingStep(d, detected, current_time) ==
  IF detected
  THEN IF (current_time - d.last_wave_time) > cooldown
       THEN [wave_state |-> COUNTING,
             wave_count |-> d.wave_count + 1,
             last_wave_time |-> current_time,
             frames_since_last_detection |-> 0]
       ELSE d
  ELSE d

\* Variants of CountingStep with one slip each.
\* The debounce test is > instead of >=.
CountingStepLate(d, detected) ==
  IF ~detected
  THEN LET n == d.frames_since_last_detection + 1
       IN  [d EXCEPT !.frames_since_last_detection = n,
                     !.wave_state = IF n > debounce_frames THEN WAITING ELSE COUNTING]
  ELSE [d EXCEPT !.frames_since_last_detection = 0]

\* The else branch (reset while the wave is still detected) is missing.
CountingStepNoReset(d, detected) ==
  IF ~detected
  THEN LET n == d.frames_since_last_detection + 1
       IN  [d EXCEPT !.frames_since_last_detection = n,
                     !.wave_state = IF n >= debounce_frames THEN WAITING ELSE COUNTING]
  ELSE d

\* No debounce: the first frame without signal ends the wave.
CountingStepNoDebounce(d, detected) ==
  IF ~detected
  THEN [d EXCEPT !.frames_since_last_detection = @ + 1, !.wave_state = WAITING]
  ELSE [d EXCEPT !.frames_since_last_detection = 0]

\* Lines 108-113.
CountingStep(d, detected) ==
  IF ~detected
  THEN LET n == d.frames_since_last_detection + 1
       IN  [d EXCEPT !.frames_since_last_detection = n,
                     !.wave_state = IF n >= debounce_frames THEN WAITING ELSE COUNTING]
  ELSE [d EXCEPT !.frames_since_last_detection = 0]

\* Variant of StateMachine: a detection is tested against the cooldown in
\* COUNTING too.
StateMachineRetrigger(d, detected, current_time) ==
  IF detected THEN WaitingStep(d, detected, current_time)
  ELSE IF d.wave_state = COUNTING THEN CountingStep(d, detected)
  ELSE d

\* Lines 98, 107: the dispatch on wave_state.
StateMachine(d, detected, current_time) ==
  IF d.wave_state = WAITING THEN WaitingStep(d, detected, current_time)
  ELSE IF d.wave_state = COUNTING THEN CountingStep(d, detected)
  ELSE d

(***************************************************************************)
(* State.                                                                  *)
(***************************************************************************)
VARIABLES
  pc,                           \* "open", "loop", "done" (returned), "raised"
  cap,                          \* the video handle: "none", "failed" (not
                                \* opened), "open", "released"
  frame_height,                 \* CAP_PROP_FRAME_HEIGHT, 0 before the open
  wave_state, wave_count, last_wave_time, frames_since_last_detection,
  result,                       \* the returned value, "none" until the return
  frames_read,                  \* frames cap.read() has delivered
  clock,                        \* wall clock when the last frame was processed
  wave_detected_in_region,      \* the signal of the last processed frame
  prev_wave_time,               \* history: last_wave_time before the last count
  runs,                         \* history: lengths of the alternating signal
                                \* runs, from the first true frame on
  mark,                         \* history: one detection singled out as the
                                \* first of a pair, or NoMark
  second,                       \* a second call on the same file: its detector
                                \* state and its clock
  frame_contours,               \* the contours of the last processed frame
  quiet,                        \* history: the current run of frames without
                                \* signal, the longest since the last count,
                                \* and the clock reading at the last count
  req,                          \* the upload requests being handled
  files                         \* the upload folder: writer of each path, 0 if
                                \* there is no file

extraVars == <<second, frame_contours, quiet, req, files>>

vars == <<pc, cap, frame_height, wave_state, wave_count, last_wave_time,
          frames_since_last_detection, result, frames_read, clock,
          wave_detected_in_region, prev_wave_time, runs, mark, extraVars>>

detectorVars == <<wave_state, wave_count, last_wave_time, frames_since_last_detection>>

Detector ==
  [wave_state |-> wave_state, wave_count |-> wave_count,
   last_wave_time |-> last_wave_time,
   frames_since_last_detection |-> frames_since_last_detection]

\* History of the signal: runs[1] is the length of the first run of true
\* frames, runs[2] of the false run after it, and so on.  Leading false frames
\* are not recorded.  Once a run beyond MaxRuns starts the history is TooMany.
TooMany == <<0>>

RecordRun(rs, prev, detected) ==
  IF rs = <<>> THEN (IF detected THEN <<1>> ELSE <<>>)
  ELSE IF rs = TooMany THEN rs
  ELSE IF detected = prev THEN [rs EXCEPT ![Len(rs)] = @ + 1]
  ELSE IF Len(rs) = MaxRuns THEN TooMany
  ELSE Append(rs, 1)

NoMark == [time |-> 0, before |-> 0, counted |-> FALSE]

\* No frame processed yet: no run of frames without signal, no count.
NoQuiet == [cur |-> 0, max |-> 0, at |-> 0]

(***************************************************************************)
(* Lines 19-22, 123-149: the upload handler's view of a request.  A file    *)
(* name as sent by the client is [dir, stem, ext].                          *)
(***************************************************************************)
Requests == {1, 2}

RawNames ==
  { [dir |-> "", stem |-> "a", ext |-> "mp4"],
    [dir |-> "../", stem |-> "a", ext |-> "mp4"],
    [dir |-> "", stem |-> "b", ext |-> "MP4"],
    [dir |-> "", stem |-> "c", ext |-> "avi"] }

\* str.lower() on the extensions that occur.
Lower(e) == IF e = "MP4" THEN "mp4" ELSE IF e = "AVI" THEN "avi" ELSE e

ALLOWED_EXTENSIONS == {"mp4"}

\* Lines 19-22.
allowed_file(n) == Lower(n.ext) \in ALLOWED_EXTENSIONS

\* Lines 135-136: on the names that occur, secure_filename strips a leading
\* "../" and keeps the name and the case of the extension; the path is
\* UPLOAD_FOLDER/name.
secure_filename(n) == <<n.stem, n.ext>>

UploadPaths == {secure_filename(n) : n \in {m \in RawNames : allowed_file(m)}}

NoPath == <<>>

IdleRequest == [pc |-> "idle", path |-> NoPath, disturbed |-> FALSE]

Init ==
  /\ pc = "open"
  /\ cap = "none"
  /\ frame_height = 0
  /\ wave_state = InitialDetector.wave_state
  /\ wave_count = InitialDetector.wave_count
  /\ last_wave_time = InitialDetector.last_wave_time
  /\ frames_since_last_detection = InitialDetector.frames_since_last_detection
  /\ result = "none"
  /\ frames_read = 0
  /\ clock \in ClockValues
  /\ wave_detected_in_region = FALSE
  /\ prev_wave_time = 0
  /\ runs = <<>>
  /\ mark = NoMark
  /\ second = [d |-> InitialDetector, clock |-> EpochStart]
  /\ frame_contours = <<>>
  /\ quiet = NoQuiet
  /\ req = [r \in Requests |-> IdleRequest]
  /\ files = [p \in UploadPaths |-> 0]

\* Variant of OpenFail: the failure is reported as a count of 0.
OpenFailReturnsZero ==
  /\ pc = "open"
  /\ pc' = "done"
  /\ cap' = "failed"
  /\ result' = 0
  /\ UNCHANGED <<frame_height, detectorVars, frames_read, clock,
                 wave_detected_in_region, prev_wave_time, runs, mark, extraVars>>

\* Lines 35-39: the video cannot be opened.
OpenFail ==
  /\ pc = "open"
  /\ pc' = "done"
  /\ cap' = "failed"
  /\ result' = OpenFailedResult
  /\ UNCHANGED <<frame_height, detectorVars, frames_read, clock,
                 wave_detected_in_region, prev_wave_time, runs, mark, extraVars>>

\* Lines 35-65: the video opens; dimensions are read and the locals initialised.
OpenOk ==
  /\ pc = "open"
  /\ pc' = "loop"
  /\ cap' = "open"
  /\ frame_height' \in FrameHeights
  /\ wave_state' = InitialDetector.wave_state
  /\ wave_count' = InitialDetector.wave_count
  /\ last_wave_time' = InitialDetector.last_wave_time
  /\ frames_since_last_detection' = InitialDetector.frames_since_last_detection
  /\ UNCHANGED <<result, frames_read, clock, wave_detected_in_region,
                 prev_wave_time, runs, mark, extraVars>>

\* Lines 67-113 for one frame that is read and processed: contours are the
\* frame's contours after segmentation and filtering, now the wall clock.
LoopBody(contours, now) ==
  LET detected == WaveDetected(frame_height, contours)
      d == StateMachine(Detector, detected, now)
  IN  /\ pc = "loop"
      /\ cap = "open"
      /\ frames_read' = frames_read + 1
      /\ clock' = now
      /\ wave_detected_in_region' = detected
      /\ wave_state' = d.wave_state
      /\ wave_count' = d.wave_count
      /\ last_wave_time' = d.last_wave_time
      /\ frames_since_last_detection' = d.frames_since_last_detection
      /\ prev_wave_time' = IF d.wave_count # wave_count THEN last_wave_time
                           ELSE prev_wave_time
      /\ UNCHANGED <<pc, cap, frame_height, result>>

\* The loop body on a video of at most MaxFrames frames.
ProcessFrame(contours, now) ==
  frames_read < MaxFrames /\ LoopBody(contours, now)

\* The readings the clock can give for the next frame.
LaterReadings == {t \in ClockValues : t >= clock}

Frame ==
  \E contours \in SampleFrames(frame_height), now \in LaterReadings :
    /\ ProcessFrame(contours, now)
    /\ UNCHANGED <<runs, mark, extraVars>>

\* Variant of EndOfStream: a stream that delivered no frame is reported as a
\* failure.
EndOfStreamEmptyFails ==
  /\ pc = "loop"
  /\ cap = "open"
  /\ pc' = "done"
  /\ cap' = "released"
  /\ result' = IF frames_read = 0 THEN OpenFailedResult ELSE wave_count
  /\ UNCHANGED <<frame_height, detectorVars, frames_read, clock,
                 wave_detected_in_region, prev_wave_time, runs, mark, extraVars>>

\* Variant of EndOfStream: a failed read is skipped ("continue") instead of
\* ending the loop.
EndOfStreamContinues ==
  /\ pc = "loop"
  /\ cap = "open"
  /\ UNCHANGED vars

\* Variant of EndOfStream: the failed read is fed to the detector as one more
\* frame without signal before the loop is left.
EndOfStreamFeedsDetector ==
  /\ pc = "loop"
  /\ cap = "open"
  /\ LET d == StateMachine(Detector, FALSE, clock)
     IN  /\ wave_state' = d.wave_state
         /\ wave_count' = d.wave_count
         /\ last_wave_time' = d.last_wave_time
         /\ frames_since_last_detection' = d.frames_since_last_detection
         /\ result' = d.wave_count
  /\ cap' = "released"
  /\ pc' = "done"
  /\ UNCHANGED <<frame_height, frames_read, clock, wave_detected_in_region,
                 prev_wave_time, runs, mark, extraVars>>

\* Lines 68-70, 115-116: cap.read() fails (end of stream or a decode failure);
\* the loop is left, the handle released and the count returned.
EndOfStream ==
  /\ pc = "loop"
  /\ cap = "open"
  /\ pc' = "done"
  /\ cap' = "released"
  /\ result' = wave_count
  /\ UNCHANGED <<frame_height, detectorVars, frames_read, clock,
                 wave_detected_in_region, prev_wave_time, runs, mark, extraVars>>

\* Lines 72-79: a frame is read and one of the OpenCV calls on it raises; the
\* exception leaves the function (there is no try/finally around the loop).
FrameError ==
  /\ pc = "loop"
  /\ cap = "open"
  /\ frames_read < MaxFrames
  /\ frames_read' = frames_read + 1
  /\ pc' = "raised"
  /\ UNCHANGED <<cap, frame_height, detectorVars, result, clock,
                 wave_detected_in_region, prev_wave_time, runs, mark, extraVars>>

Next == OpenFail \/ OpenOk \/ Frame \/ EndOfStream \/ FrameError

Spec == Init /\ [][Next]_vars

(***************************************************************************)
(* The same program with the history of the signal runs recorded.          *)
(***************************************************************************)
FrameRuns ==
  \E contours \in SampleFrames(frame_height), now \in LaterReadings :
    /\ ProcessFrame(contours, now)
    /\ runs' = RecordRun(runs, wave_detected_in_region,
                         WaveDetected(frame_height, contours))
    /\ UNCHANGED <<mark, extraVars>>

NextRuns == OpenFail \/ OpenOk \/ FrameRuns \/ EndOfStream \/ FrameError

SpecRuns == Init /\ [][NextRuns]_vars

(***************************************************************************)
(* The same program with one detection (a frame whose signal is true)      *)
(* singled out: mark records the clock at that frame, wave_count before it *)
(* and whether the frame was counted.                                      *)
(***************************************************************************)
FramePair ==
  \E contours \in SampleFrames(frame_height), now \in LaterReadings :
    /\ ProcessFrame(contours, now)
    /\ \/ UNCHANGED mark
       \/ /\ mark = NoMark
          /\ WaveDetected(frame_height, contours)
          /\ mark' = [time |-> now, before |-> wave_count,
                      counted |-> wave_count' # wave_count]
    /\ UNCHANGED <<runs, extraVars>>

NextPair == OpenFail \/ OpenOk \/ FramePair \/ EndOfStream \/ FrameError

SpecPair == Init /\ [][NextPair]_vars

(***************************************************************************)
(* The program on one given video: 10 seconds at 30 frames per second, in  *)
(* which a blob is in the counting sub-zone for 15 frames from t = 1 s,    *)
(* from t = 4 s and from t = 8 s, and nothing is detected elsewhere.  The  *)
(* clock may advance by up to three cooldowns and more over the call.      *)
(***************************************************************************)
ScenarioFrames == 10 * 30

\* Whether the blob is visible in frame number i, counted from 0.
ScenarioSignal(i) == \E s \in {1, 4, 8} : i \in (s * 30) .. (s * 30 + 15 - 1)

ScenarioContours(fh, i) ==
  IF ScenarioSignal(i)
  THEN <<ContourAt(fh, MinContourArea, MinContourWidth, COUNT_ZONE_TOP(fh))>>
  ELSE <<>>

ScenarioReadings ==
  {t \in EpochStart .. (EpochStart + 3 * (cooldown + 1)) : t >= clock}

FrameScenario ==
  /\ frames_read < ScenarioFrames
  /\ \E now \in ScenarioReadings :
       LoopBody(ScenarioContours(frame_height, frames_read), now)
  /\ UNCHANGED <<runs, mark, extraVars>>

EndScenario == frames_read = ScenarioFrames /\ EndOfStream

NextScenario == OpenOk \/ FrameScenario \/ EndScenario

SpecScenario == Init /\ [][NextScenario]_vars

(***************************************************************************)
(* Two calls on the same file, side by side: both are fed the same frames, *)
(* each reads the clock for itself.  The second call's detector and clock  *)
(* are in second; it returns second.d.wave_count when the first returns.   *)
(***************************************************************************)
\* The frames of the file: a blob in the counting sub-zone, or nothing.
FileFrames(fh) ==
  { <<>>, <<ContourAt(fh, MinContourArea, MinContourWidth, COUNT_ZONE_TOP(fh))>> }

FrameTwice ==
  \E contours \in FileFrames(frame_height), now \in LaterReadings,
     now2 \in {t \in ClockValues : t >= second.clock} :
    /\ ProcessFrame(contours, now)
    /\ second' = [d |-> StateMachine(second.d,
                                     WaveDetected(frame_height, contours), now2),
                  clock |-> now2]
    /\ UNCHANGED <<runs, mark, frame_contours, quiet, req, files>>

NextTwice == OpenOk \/ FrameTwice \/ EndOfStream

SpecTwice == Init /\ [][NextTwice]_vars

(***************************************************************************)
(* The signal computation of lines 80-95 alone, applied to frame after     *)
(* frame, with the contours of each frame enumerated and kept in           *)
(* frame_contours.  The state machine that consumes the signal is not run  *)
(* here, and the clock, which plays no part, is fixed.                     *)
(***************************************************************************)
InitSignal == Init /\ clock = EpochStart

DetectSignal ==
  /\ pc = "loop"
  /\ cap = "open"
  /\ frames_read < MaxSignalFrames
  /\ \E contours \in BlobFrames(frame_height) :
       /\ frame_contours' = contours
       /\ wave_detected_in_region' = WaveDetected(frame_height, contours)
       /\ runs' = RecordRun(runs, wave_detected_in_region,
                            WaveDetected(frame_height, contours))
  /\ frames_read' = frames_read + 1
  /\ UNCHANGED <<pc, cap, frame_height, detectorVars, result, clock,
                 prev_wave_time, mark, second, quiet, req, files>>

NextSignal == OpenOk \/ DetectSignal

SpecSignal == InitSignal /\ [][NextSignal]_vars

(***************************************************************************)
(* The program as it is run: the interpreter keeps executing the function  *)
(* while it has a step to take.                                            *)
(***************************************************************************)
SpecLive == Init /\ [][Next]_vars /\ WF_vars(Next)

(***************************************************************************)
(* The same program with the frames without signal recorded: quiet.cur is  *)
(* the length of the run of such frames that ends at the last frame,       *)
(* quiet.max the longest such run since wave_count was last incremented    *)
(* and quiet.at the clock reading of the frame that incremented it.        *)
(***************************************************************************)
FrameQuiet ==
  \E contours \in SampleFrames(frame_height), now \in LaterReadings :
    /\ ProcessFrame(contours, now)
    /\ LET cur == IF WaveDetected(frame_height, contours) THEN 0
                  ELSE quiet.cur + 1
       IN  quiet' = IF wave_count' # wave_count
                    THEN [cur |-> cur, max |-> 0, at |-> now]
                    ELSE [cur |-> cur,
                          max |-> IF cur > quiet.max THEN cur ELSE quiet.max,
                          at |-> quiet.at]
    /\ UNCHANGED <<runs, mark, second, frame_contours, req, files>>

NextQuiet == OpenFail \/ OpenOk \/ FrameQuiet \/ EndOfStream \/ FrameError

SpecQuiet == Init /\ [][NextQuiet]_vars

(***************************************************************************)
(* Lines 123-149: upload requests handled concurrently, each by its own    *)
(* thread.  A step is one of the handler's accesses to the upload folder:  *)
(* file.save, the open and the release inside count_ocean_waves_web, and   *)
(* os.remove.  req[r].disturbed records that the file at r's path was      *)
(* overwritten or deleted by another request while r had it open.          *)
(***************************************************************************)
\* The variables of a call of count_ocean_waves_web followed step by step.
callVars ==
  <<pc, cap, frame_height, detectorVars, result, frames_read, clock,
    wave_detected_in_region, prev_wave_time, runs, mark, second,
    frame_contours, quiet>>

\* The requests other than r that have the file at path p open.
Processing(r, p) ==
  {q \in Requests \ {r} : req[q].pc = "processing" /\ req[q].path = p}

\* req after request r touched the file at p and moved to position to.
Touch(r, p, to) ==
  [q \in Requests |->
     IF q = r THEN [req[r] EXCEPT !.pc = to, !.path = p]
     ELSE IF q \in Processing(r, p) THEN [req[q] EXCEPT !.disturbed = TRUE]
     ELSE req[q]]

\* Lines 125-132: no file part, or an empty file name.
NoFile(r) ==
  /\ req[r].pc = "idle"
  /\ req' = [req EXCEPT ![r].pc = "redirected"]
  /\ UNCHANGED <<files, callVars>>

\* Lines 134-137, 148-149: the extension test on the name as sent, then
\* file.save to the sanitized path, replacing a file that is there.
SaveFile(r, n) ==
  /\ req[r].pc = "idle"
  /\ IF allowed_file(n)
     THEN /\ files' = [files EXCEPT ![secure_filename(n)] = r]
          /\ req' = Touch(r, secure_filename(n), "saved")
     ELSE /\ req' = [req EXCEPT ![r].pc = "rejected"]
          /\ UNCHANGED files
  /\ UNCHANGED callVars

\* Lines 141, 35-39: count_ocean_waves_web opens the path; with no file there
\* the open fails and the call returns at once.
OpenFile(r) ==
  /\ req[r].pc = "saved"
  /\ req' = [req EXCEPT ![r].pc = IF files[req[r].path] # 0 THEN "processing"
                                  ELSE "processed"]
  /\ UNCHANGED <<files, callVars>>

\* Lines 115-116: the handle is released and the call returns.
ReleaseFile(r) ==
  /\ req[r].pc = "processing"
  /\ req' = [req EXCEPT ![r].pc = "processed"]
  /\ UNCHANGED <<files, callVars>>

\* Lines 145-147: os.remove(filepath); it raises FileNotFoundError when the
\* path holds no file.
RemoveFile(r) ==
  /\ req[r].pc = "processed"
  /\ IF files[req[r].path] # 0
     THEN /\ files' = [files EXCEPT ![req[r].path] = 0]
          /\ req' = Touch(r, req[r].path, "removed")
     ELSE /\ req' = [req EXCEPT ![r].pc = "remove_failed"]
          /\ UNCHANGED files
  /\ UNCHANGED callVars

Upload(r) ==
  \/ NoFile(r)
  \/ \E n \in RawNames : SaveFile(r, n)
  \/ OpenFile(r)
  \/ ReleaseFile(r)
  \/ RemoveFile(r)

NextUpload == \E r \in Requests : Upload(r)

InitUpload == Init /\ clock = EpochStart

SpecUpload == InitUpload /\ [][NextUpload]_vars

TypeOK ==
  /\ pc \in {"open", "loop", "done", "raised"}
  /\ cap \in {"none", "failed", "open", "released"}
  /\ wave_state \in {WAITING, COUNTING}
  /\ wave_count \in 0 .. MaxFrames
  /\ last_wave_time \in {0} \cup ClockValues
  /\ frames_since_last_detection \in 0 .. debounce_frames
  /\ frames_read \in 0 .. MaxFrames

(***************************************************************************)
(* Properties.                                                             *)
(***************************************************************************)

\* A step in which one frame is read and run through the state machine.
FrameProcessed == pc = "loop" /\ pc' = "loop" /\ frames_read' = frames_read + 1

\* C1: in WAITING, a frame whose signal is true and whose clock reading is more
\* than cooldown after last_wave_time increments wave_count by exactly 1, sets
\* last_wave_time to the reading, moves to COUNTING and resets
\* frames_since_last_detection to 0 (the first such frame of a video, with
\* last_wave_time = 0, included).
C1_CountAfterCooldown ==
  [][(/\ FrameProcessed
      /\ wave_state = WAITING
      /\ wave_detected_in_region'
      /\ (clock' - last_wave_time) > cooldown)
     => (/\ wave_count' = wave_count + 1
         /\ last_wave_time' = clock'
         /\ wave_state' = COUNTING
         /\ frames_since_last_detection' = 0)]_vars

\* A second wave has just been counted, after the detector had returned to
\* WAITING with a stale debounce counter.
C1_Witness ==
  /\ pc = "loop"
  /\ wave_count = 2
  /\ wave_detected_in_region
  /\ last_wave_time = clock
  /\ prev_wave_time > 0
  /\ wave_state = COUNTING
  /\ frames_since_last_detection = 0

\* C2: in WAITING, a frame whose signal is false, or whose signal is true while
\* the reading is at most cooldown after last_wave_time, leaves wave_state,
\* wave_count, last_wave_time and frames_since_last_detection unchanged.
C2_WaitingUnchanged ==
  [][(/\ FrameProcessed
      /\ wave_state = WAITING
      /\ \/ ~wave_detected_in_region'
         \/ (clock' - last_wave_time) <= cooldown)
     => UNCHANGED detectorVars]_vars

\* A detection in WAITING exactly one cooldown after the last count was
\* suppressed.
C2_Witness ==
  /\ pc = "loop"
  /\ wave_state = WAITING
  /\ wave_detected_in_region
  /\ wave_count = 1
  /\ clock - last_wave_time = cooldown
  /\ frames_since_last_detection = debounce_frames

\* C3: in COUNTING, a frame whose signal is false increments
\* frames_since_last_detection by 1, and the detector is back in WAITING after
\* the frame exactly if the counter has then reached debounce_frames;
\* wave_count and last_wave_time are unchanged.
C3_DebounceExact ==
  [][(/\ FrameProcessed
      /\ wave_state = COUNTING
      /\ ~wave_detected_in_region')
     => (/\ frames_since_last_detection' = frames_since_last_detection + 1
         /\ frames_since_last_detection' <= debounce_frames
         /\ (wave_state' = WAITING) <=> (frames_since_last_detection' = debounce_frames)
         /\ (wave_state' = COUNTING) <=> (frames_since_last_detection' < debounce_frames)
         /\ UNCHANGED <<wave_count, last_wave_time>>)]_vars

\* The tenth frame without signal has just closed the first wave.
C3_Witness ==
  /\ pc = "loop"
  /\ wave_state = WAITING
  /\ ~wave_detected_in_region
  /\ frames_since_last_detection = debounce_frames
  /\ wave_count = 1
  /\ frames_read = debounce_frames + 1

\* C4: in COUNTING, a frame whose signal is true resets
\* frames_since_last_detection to 0 and changes nothing else of the detector,
\* however long ago the last count was.
C4_CountingRedetect ==
  [][(/\ FrameProcessed
      /\ wave_state = COUNTING
      /\ wave_detected_in_region')
     => (/\ frames_since_last_detection' = 0
         /\ wave_state' = COUNTING
         /\ UNCHANGED <<wave_count, last_wave_time>>)]_vars

\* A detection in COUNTING more than one cooldown after the count, following
\* frames without signal: not counted.
C4_Witness ==
  /\ pc = "loop"
  /\ wave_state = COUNTING
  /\ wave_detected_in_region
  /\ frames_since_last_detection = 0
  /\ wave_count = 1
  /\ clock - last_wave_time > cooldown
  /\ frames_read > 2

\* C5: a video whose signal is true for N < debounce_frames frames, then false
\* for fewer than debounce_frames frames, then true again, returns 1.
C5_ShortGapOneWave ==
  (/\ pc = "done"
   /\ cap = "released"
   /\ Len(runs) = 3
   /\ runs[1] < debounce_frames
   /\ runs[2] < debounce_frames)
  => result = 1

\* Such a video with the longest short gap, whose reappearance comes more than
\* one cooldown after the count.
C5_Witness ==
  /\ pc = "done"
  /\ Len(runs) = 3
  /\ runs[1] < debounce_frames
  /\ runs[2] = debounce_frames - 1
  /\ clock - last_wave_time > cooldown
  /\ result = 1

\* The reading at which the first wave of the video was counted, while at most
\* two have been.
FirstWaveTime == IF wave_count = 1 THEN last_wave_time ELSE prev_wave_time

\* C6 as stated: a video whose signal is true for N frames, then false for
\* more than debounce_frames frames, then true again, returns 2.
C6_LongGapTwoWaves ==
  (/\ pc = "done"
   /\ cap = "released"
   /\ Len(runs) = 3
   /\ runs[2] > debounce_frames)
  => result = 2

\* C6 amended: such a video returns 2 if the last frame of the second
\* appearance is processed more than cooldown after the first wave was
\* counted, and 1 otherwise.
C6_LongGapByCooldown ==
  (/\ pc = "done"
   /\ cap = "released"
   /\ Len(runs) = 3
   /\ runs[2] > debounce_frames)
  => result = (IF clock - FirstWaveTime > cooldown THEN 2 ELSE 1)

\* Such a video that returned 2.
C6_Witness ==
  /\ pc = "done"
  /\ Len(runs) = 3
  /\ runs[2] > debounce_frames
  /\ clock - prev_wave_time > cooldown
  /\ result = 2

\* A step that processes a detection later than the marked one.
SecondDetection ==
  FrameProcessed /\ mark # NoMark /\ wave_detected_in_region'

\* C7 as stated: over two detections less than cooldown apart wave_count
\* increases by exactly 1.
C7_CloseDetectionsCountOne ==
  [][(SecondDetection /\ clock' - mark.time < cooldown)
     => wave_count' - mark.before = 1]_vars

\* C7 amended: over two detections less than cooldown apart wave_count
\* increases by at most 1, and by exactly 1 if the first of them is counted.
C7_CloseDetectionsAtMostOne ==
  [][(SecondDetection /\ clock' - mark.time < cooldown)
     => (/\ wave_count' - mark.before \in {0, 1}
         /\ mark.counted => wave_count' - mark.before = 1)]_vars

\* The first detection was counted, the detector went back to WAITING, and a
\* second detection less than cooldown after the first was suppressed.
C7_Witness ==
  /\ pc = "loop"
  /\ mark # NoMark
  /\ mark.counted
  /\ wave_detected_in_region
  /\ wave_state = WAITING
  /\ frames_since_last_detection = debounce_frames
  /\ clock - mark.time < cooldown
  /\ wave_count = mark.before + 1

\* C8 as stated: over two detections more than cooldown apart wave_count
\* increases by 2.
C8_FarDetectionsCountTwo ==
  [][(SecondDetection /\ clock' - mark.time > cooldown)
     => wave_count' - mark.before = 2]_vars

\* C8 amended: over two detections more than cooldown apart, the first of
\* which is counted and with no count between them, wave_count increases by 2
\* if the detector is in WAITING when the second arrives, and by 1 if it is
\* still in COUNTING.
C8_FarDetectionsByPhase ==
  [][(/\ SecondDetection
      /\ clock' - mark.time > cooldown
      /\ mark.counted
      /\ wave_count = mark.before + 1)
     => wave_count' - mark.before = (IF wave_state = WAITING THEN 2 ELSE 1)]_vars

\* Both detections of a pair more than cooldown apart were counted.
C8_Witness ==
  /\ pc = "loop"
  /\ mark # NoMark
  /\ mark.counted
  /\ wave_detected_in_region
  /\ clock - mark.time > cooldown
  /\ last_wave_time = clock
  /\ wave_count = mark.before + 2

\* C9: wave_count starts at 0, and no step decreases it or increases it by
\* more than 1.
C9_CountMonotone ==
  /\ wave_count = 0
  /\ [][wave_count' \in {wave_count, wave_count + 1}]_vars

\* Two waves have been counted.
C9_Witness ==
  /\ wave_count = 2
  /\ pc = "done"
  /\ result = 2

\* C10: when the video cannot be opened the function has returned a negative
\* value with no frame read and nothing raised; a return after a successful
\* open is >= 0; so a returned value is negative exactly if the open failed.
C10_NegativeIffOpenFailed ==
  /\ cap = "failed" => (pc = "done" /\ result < 0 /\ frames_read = 0)
  /\ (pc = "done" /\ cap # "failed") => (cap = "released" /\ result >= 0)
  /\ pc = "raised" => cap = "open"

\* The open failed and the sentinel was returned.
C10_Witness ==
  /\ pc = "done"
  /\ cap = "failed"
  /\ result = OpenFailedResult
  /\ frames_read = 0
\* C11: a video that opens but delivers no frame returns 0.
C11_NoFramesZero ==
  (pc = "done" /\ cap = "released" /\ frames_read = 0) => result = 0

\* The video opened, the first read failed and 0 was returned.
C11_Witness ==
  /\ pc = "done"
  /\ cap = "released"
  /\ frame_height > 0
  /\ frames_read = 0
  /\ result = 0
\* C12: the 300-frame video with three well-separated 15-frame appearances
\* returns 3, whatever the clock readings during the call.
C12_ScenarioThreeWaves ==
  (pc = "done" /\ cap = "released" /\ frames_read = ScenarioFrames) => result = 3
\* C13: two calls fed the same per-frame signals return the same count,
\* whatever the clock readings of each.
C13_SameCountTwice ==
  (pc = "done" /\ cap = "released") => result = second.d.wave_count
\* The row of a contour's vertical center in the full frame, and whether it
\* lies in the counting sub-zone, bounds included.
CenterRow(fh, c) == ROI_TOP(fh) + c.y + (c.h \div 2)

InCountZone(fh, c) ==
  COUNT_ZONE_TOP(fh) <= CenterRow(fh, c) /\ CenterRow(fh, c) <= COUNT_ZONE_BOTTOM(fh)

\* C14: a contour in the zone with exactly the minimum area and exactly the
\* minimum width makes the signal true; a frame all of whose contours have an
\* area one below the minimum or a width one below the minimum has no signal.
C14_ThresholdsInclusive ==
  frames_read > 0 =>
    /\ (\E i \in DOMAIN frame_contours :
          /\ frame_contours[i].area = MinContourArea
          /\ frame_contours[i].w = MinContourWidth
          /\ InCountZone(frame_height, frame_contours[i]))
       => wave_detected_in_region
    /\ (\A i \in DOMAIN frame_contours :
          \/ frame_contours[i].area = MinContourArea - 1
          \/ frame_contours[i].w = MinContourWidth - 1)
       => ~wave_detected_in_region

\* A frame with a contour one below the minimum area and a contour exactly at
\* both minimums: the signal is true.
C14_Witness ==
  /\ frames_read > 0
  /\ wave_detected_in_region
  /\ Len(frame_contours) = 2
  /\ frame_contours[1].area = MinContourArea - 1
  /\ frame_contours[2].area = MinContourArea
  /\ frame_contours[2].w = MinContourWidth
\* C18: the signal of a frame is true exactly if one of its contours has
\* area >= 1000, width >= 50 and its vertical center in the counting sub-zone,
\* bounds included; this holds of every frame, whatever the order of its
\* contours and whatever the signal of the frame before.
C18_SignalIffBlobInZone ==
  frames_read > 0 =>
    (wave_detected_in_region <=>
       \E i \in DOMAIN frame_contours :
         /\ frame_contours[i].area >= MinContourArea
         /\ frame_contours[i].w >= MinContourWidth
         /\ InCountZone(frame_height, frame_contours[i]))

\* After a frame with signal, a frame whose first contour is in the zone and
\* too small and whose second is large enough and one row below the zone: no
\* signal.
C18_Witness ==
  /\ runs = <<1, 1>>
  /\ ~wave_detected_in_region
  /\ Len(frame_contours) = 2
  /\ frame_contours[1].area < MinContourArea
  /\ InCountZone(frame_height, frame_contours[1])
  /\ frame_contours[2].area >= MinContourArea
  /\ frame_contours[2].w >= MinContourWidth
  /\ CenterRow(frame_height, frame_contours[2]) = COUNT_ZONE_BOTTOM(frame_height) + 1
\* C15: whenever the function has stopped, by a return or by an exception, it
\* holds no open video handle.
C15_HandleReleased ==
  pc \in {"done", "raised"} => cap # "open"
\* The function has returned the count after a failed read.
ReturnedCount == pc = "done" /\ cap = "released" /\ result = wave_count

\* C16 as stated: once the video is open, the loop eventually reaches the end
\* of the stream, is left, and the count is returned.
C16_EventuallyReturnsCount ==
  (cap = "open") ~> ReturnedCount

\* C16 amended: once the video is open the call eventually ends, either by
\* returning the count after the read that fails or by an exception raised
\* while a frame is processed.
C16_EventuallyEnds ==
  (cap = "open") ~> (ReturnedCount \/ pc = "raised")

\* The stream ended in the middle of a wave and the count was returned.
C16_Witness ==
  /\ ReturnedCount
  /\ wave_state = COUNTING
  /\ frames_read > 0
  /\ result = 1
\* C17: the read that fails ends the loop for good. The step that leaves the
\* loop reads no frame, leaves the detector as it was and returns the count;
\* once the function has returned, no frame is read and nothing changes.
C17_FailedReadStopsLoop ==
  [][/\ (pc = "loop" /\ pc' = "done") =>
          /\ frames_read' = frames_read
          /\ Detector' = Detector
          /\ cap' = "released"
          /\ result' = wave_count
     /\ pc = "done" => UNCHANGED <<pc, frames_read, detectorVars, result, cap>>]_vars

\* The read failed mid-stream, during a wave, after some frames were processed.
C17_Witness ==
  /\ pc = "done"
  /\ cap = "released"
  /\ frames_read \in 1 .. (MaxFrames - 1)
  /\ wave_state = COUNTING
  /\ result = wave_count
\* C19: wave_count is only incremented by a frame that finds the detector in
\* WAITING; and when it was incremented before, at least debounce_frames
\* consecutive frames without signal lie between the two increments and the
\* clock reading of this frame is more than cooldown after the reading of the
\* frame of the previous increment.
C19_IncrementsSeparated ==
  [][(FrameProcessed /\ wave_count' # wave_count) =>
       /\ wave_state = WAITING
       /\ wave_count >= 1 =>
            /\ quiet.max >= debounce_frames
            /\ clock' - quiet.at > cooldown]_vars

\* A second wave was counted, after a first one and a quiet gap.
C19_Witness ==
  /\ wave_count = 2
  /\ wave_state = COUNTING
  /\ quiet.at - prev_wave_time > cooldown
  /\ frames_read >= debounce_frames + 2
\* C20: no request has the file at its path overwritten or deleted by another
\* request while it has the file open, and no request's own deletion fails.
C20_ExclusiveAccess ==
  \A r \in Requests : ~req[r].disturbed /\ req[r].pc # "remove_failed"
====
